---- MODULE Spec2Model ----
(***************************************************************************)
(* Model of flows/my_calculator_stream.py: the Prefect flow                *)
(* calculator_automation_stream, the task perform_calculation with its     *)
(* retry policy, and the keyboard automation perform_calculation_rpa.      *)
(*                                                                         *)
(* Python strings are sequences of one-character strings.  Exceptions are  *)
(* records [type, msg]; str(e) is e.msg.  Everything outside the file      *)
(* (osascript, pyautogui, pyperclip, the Prefect engine) is environment:   *)
(* a call into it either returns or raises, chosen nondeterministically.   *)
(***************************************************************************)
EXTENDS Integers, Sequences, FiniteSets, TLC

\* ---------------------------------------------------------------- bounds
MaxCalcs == 2      \* longest input list given to the flow
MaxLen == 2        \* longest expression string

\* Characters the expressions are drawn from: a digit, an operator of
\* key_mapping, and two characters the automation has no key for (the second
\* is the clear key itself, which an expression may contain as a letter).
Alphabet == {"7", "*", "x", "c"}

\* Texts the system clipboard may hold when it is read (it is never checked
\* to be the result of the calculation just typed).
ClipTexts == { <<"4", "9">>, <<" ", "1", ",", "0", " ">>, <<"E", "r", "r">> }

\* ------------------------------------------------------- program constants
retries == 3

\* Names bound in the module's global namespace: the imports of lines 1-4 and
\* the functions the file defines.  A name that is read without being bound
\* here (or as a local) raises NameError.
ModuleGlobals ==
  { "time", "subprocess", "pyautogui", "flow", "task",
    "open_calculator", "close_calculator", "hands_press_key",
    "perform_calculation_rpa", "perform_calculation",
    "calculator_automation_stream" }

NameDefined(n) == n \in ModuleGlobals

NameError(n) == [type |-> "NameError", msg |-> <<"name", n, "is not defined">>]

None == [type |-> "None"]

\* subprocess.run(..., check=True) on a non-zero exit status
CalledProcessError(cmd) == [type |-> "CalledProcessError", msg |-> <<"osascript", cmd>>]

\* the attribute lookup future.kwargs on an object that has no such attribute
AttributeError == [type |-> "AttributeError", msg |-> <<"no attribute", "kwargs">>]

\* any exception raised inside the Prefect engine by Task.map
MapError == [type |-> "MapError", msg |-> <<"map">>]

\* any exception raised by pyautogui or by pyperclip.paste
AutomationError(what) == [type |-> "AutomationError", msg |-> <<what>>]

str(e) == e.msg

\* ------------------------------------------------------------ pure helpers
RECURSIVE SeqsUpTo(_, _)
SeqsUpTo(S, n) ==
  IF n = 0 THEN { <<>> }
  ELSE LET shorter == SeqsUpTo(S, n - 1)
       IN shorter \cup { Append(s, x) : s \in { t \in shorter : Len(t) = n - 1 }, x \in S }

Exprs == SeqsUpTo(Alphabet, MaxLen)

\* The expressions a flow run is given: the flow never looks inside them, so
\* two distinguishable ones are enough to tell positions apart.
FlowExprs == { <<"7", "*", "7">>, <<"7", "x">> }

isdigit(ch) == ch \in {"0", "1", "2", "3", "4", "5", "6", "7", "8", "9"}

key_mapping == [ ch \in {"+", "-", "*", "/"} |-> ch ]

\* Variant of CharKeys without the elif branch: operators are not pressed.
CharKeysDigitsOnly(ch) == IF isdigit(ch) THEN << ch >> ELSE << >>

\* One iteration of the loop over the expression: the keys pressed for ch.
CharKeys(ch) ==
  IF isdigit(ch) THEN << ch >>
  ELSE IF ch \in DOMAIN key_mapping THEN << key_mapping[ch] >>
  ELSE << >>

\* str.strip(): drop leading and trailing whitespace
RECURSIVE lstrip(_)
lstrip(s) == IF s # <<>> /\ Head(s) = " " THEN lstrip(Tail(s)) ELSE s

RECURSIVE rstrip(_)
rstrip(s) == IF s # <<>> /\ s[Len(s)] = " " THEN rstrip(SubSeq(s, 1, Len(s) - 1)) ELSE s

strip(s) == rstrip(lstrip(s))

\* str.replace(',', '')
replace_commas(s) == SelectSeq(s, LAMBDA ch : ch # ",")

\* ------------------------------------------------------------------ state
VARIABLES
  calculations,        \* the flow's argument / the expressions of direct calls
  pyperclipInstalled,  \* whether "import pyperclip" succeeds on this machine
  futureKwargs,        \* what future.kwargs.get('expression', ...) does in the engine
  fpc,                 \* position of calculator_automation_stream
  results,             \* its local list
  idx,                 \* position of the loop over result_futures (1-based)
  exc,                 \* exception in flight in the flow, or None
  retval,              \* value of the return statement waiting for finally, or None
  observed,            \* what the caller of the flow gets: a value or an exception
  openCalls,           \* invocations of open_calculator
  closeCalls,          \* invocations of close_calculator
  closeFailures,       \* invocations of close_calculator that raised
  pc,                  \* per task run / per direct call: its position
  attempts,            \* per task run: attempts started so far
  k,                   \* per call of perform_calculation_rpa: loop position
  events,              \* per task run / per direct call: key events emitted
  ret                  \* per task run / per direct call: returned value or exception

vars == << calculations, pyperclipInstalled, futureKwargs, fpc, results, idx, exc,
           retval, observed, openCalls, closeCalls, closeFailures,
           pc, attempts, k, events, ret >>

flowVars == << fpc, results, idx, exc, retval, observed, openCalls, closeCalls, closeFailures >>
envVars == << calculations, pyperclipInstalled, futureKwargs >>
threadVars == << pc, attempts, k, events, ret >>

Threads == 1..MaxCalcs
N == Len(calculations)

InitThreads ==
  /\ pc = [i \in Threads |-> "NotSubmitted"]
  /\ attempts = [i \in Threads |-> 0]
  /\ k = [i \in Threads |-> 0]
  /\ events = [i \in Threads |-> <<>>]
  /\ ret = [i \in Threads |-> None]

InitFlow ==
  /\ fpc = "start"
  /\ results = <<>>
  /\ idx = 0
  /\ exc = None
  /\ retval = None
  /\ observed = None
  /\ openCalls = 0
  /\ closeCalls = 0
  /\ closeFailures = 0

Init ==
  /\ calculations \in SeqsUpTo(FlowExprs, MaxCalcs)
  /\ pyperclipInstalled \in BOOLEAN
  /\ futureKwargs \in {"expression", "no_key", "no_attr"}
  /\ InitFlow
  /\ InitThreads

\* ------------------------------------------------------------ App Controller
\* open_calculator(): subprocess.run(check=True) returns or raises.  Called at
\* line 113, before the try statement, so an exception leaves the flow at once.
FlowOpen ==
  /\ fpc = "start"
  /\ openCalls' = openCalls + 1
  /\ \/ /\ fpc' = "map"
        /\ results' = <<>>
        /\ UNCHANGED observed
     \/ /\ fpc' = "done"
        /\ observed' = CalledProcessError("activate")
        /\ UNCHANGED results
  /\ UNCHANGED << idx, exc, retval, closeCalls, closeFailures >>
  /\ UNCHANGED envVars
  /\ UNCHANGED threadVars

\* result_futures = perform_calculation.map(calculations): one task run per
\* expression is submitted, or the engine raises and the outer handler runs.
FlowMap ==
  /\ fpc = "map"
  /\ \/ /\ pc' = [i \in Threads |-> IF i <= N THEN "Pending" ELSE pc[i]]
        /\ fpc' = "collect"
        /\ idx' = 1
        /\ UNCHANGED exc
     \/ /\ exc' = MapError
        /\ fpc' = "except"
        /\ UNCHANGED << pc, idx >>
  /\ UNCHANGED << results, retval, observed, openCalls, closeCalls, closeFailures >>
  /\ UNCHANGED envVars
  /\ UNCHANGED << attempts, k, events, ret >>

\* ------------------------------------------- Input Driver and Result Reader
\* perform_calculation_rpa(expression), one action per call it makes into
\* pyautogui / pyperclip.  Thread i works on calculations[i].
Sentinel == << "Result_Read_Error" >>

\* An exception leaves perform_calculation_rpa (it has no handler but the one
\* for ImportError).
RpaRaise(i, what) ==
  /\ pc' = [pc EXCEPT ![i] = "raised"]
  /\ ret' = [ret EXCEPT ![i] = AutomationError(what)]
  /\ UNCHANGED << k, events >>

\* line 35: hands_press_key('c')
RpaClear(i) ==
  /\ pc[i] = "clear"
  /\ \/ /\ events' = [events EXCEPT ![i] = Append(events[i], "c")]
        /\ k' = [k EXCEPT ![i] = 1]
        /\ pc' = [pc EXCEPT ![i] = "loop"]
        /\ UNCHANGED ret
     \/ RpaRaise(i, "press")
  /\ UNCHANGED attempts
  /\ UNCHANGED envVars
  /\ UNCHANGED flowVars

\* lines 41-46: one iteration of the loop over the expression's characters
RpaChar(i) ==
  /\ pc[i] = "loop"
  /\ k[i] <= Len(calculations[i])
  /\ \/ /\ events' = [events EXCEPT ![i] = events[i] \o CharKeys(calculations[i][k[i]])]
        /\ k' = [k EXCEPT ![i] = k[i] + 1]
        /\ UNCHANGED << pc, ret >>
     \/ /\ CharKeys(calculations[i][k[i]]) # <<>>
        /\ RpaRaise(i, "press")
  /\ UNCHANGED attempts
  /\ UNCHANGED envVars
  /\ UNCHANGED flowVars

\* line 49: the loop is over, pyautogui.press('=')
RpaEquals(i) ==
  /\ pc[i] = "loop"
  /\ k[i] > Len(calculations[i])
  /\ \/ /\ events' = [events EXCEPT ![i] = Append(events[i], "=")]
        /\ pc' = [pc EXCEPT ![i] = "copy"]
        /\ UNCHANGED << k, ret >>
     \/ RpaRaise(i, "press")
  /\ UNCHANGED attempts
  /\ UNCHANGED envVars
  /\ UNCHANGED flowVars

\* line 56: pyautogui.hotkey('command', 'c')
RpaCopy(i) ==
  /\ pc[i] = "copy"
  /\ \/ /\ events' = [events EXCEPT ![i] = Append(events[i], "command+c")]
        /\ pc' = [pc EXCEPT ![i] = "read"]
        /\ UNCHANGED << k, ret >>
     \/ RpaRaise(i, "hotkey")
  /\ UNCHANGED attempts
  /\ UNCHANGED envVars
  /\ UNCHANGED flowVars

\* lines 59-67: import pyperclip; on ImportError return the sentinel, else
\* return the cleaned clipboard text; any other exception of paste() leaves.
RpaRead(i) ==
  /\ pc[i] = "read"
  /\ IF ~pyperclipInstalled
       THEN /\ ret' = [ret EXCEPT ![i] = Sentinel]
            /\ pc' = [pc EXCEPT ![i] = "returned"]
            /\ UNCHANGED << k, events >>
       ELSE \/ \E text \in ClipTexts :
                 /\ ret' = [ret EXCEPT ![i] = replace_commas(strip(text))]
                 /\ events' = [events EXCEPT ![i] = Append(events[i], "paste")]
                 /\ pc' = [pc EXCEPT ![i] = "returned"]
                 /\ UNCHANGED k
            \/ RpaRaise(i, "paste")
  /\ UNCHANGED attempts
  /\ UNCHANGED envVars
  /\ UNCHANGED flowVars

\* ---------------------------------------------------------- Calculation Task
\* The engine starts the first attempt of a submitted task run.
TaskStart(i) ==
  /\ pc[i] = "Pending"
  /\ pc' = [pc EXCEPT ![i] = "Running"]
  /\ attempts' = [attempts EXCEPT ![i] = 1]
  /\ UNCHANGED << k, events, ret >>
  /\ UNCHANGED envVars
  /\ UNCHANGED flowVars

\* Off-by-one variant of TaskRaise: the last retry is never granted.
TaskRaiseOneRetryShort(i, e) ==
  /\ ret' = [ret EXCEPT ![i] = e]
  /\ pc' = [pc EXCEPT ![i] = IF attempts[i] < retries THEN "AwaitingRetry" ELSE "Failed"]

\* What the engine does with an attempt that raised e: with retries left the
\* run waits for its retry, otherwise it is Failed with e.
TaskRaise(i, e) ==
  /\ ret' = [ret EXCEPT ![i] = e]
  /\ pc' = [pc EXCEPT ![i] = IF attempts[i] <= retries THEN "AwaitingRetry" ELSE "Failed"]

\* Lines 88-93, after perform_calculation_rpa has returned: the second clear
\* key, then the success outcome is returned and the run is Completed.  An
\* exception of the key press is inside the try statement: the handler of
\* lines 95-99 logs and re-raises it to the engine.
TaskFinish(i) ==
  /\ pc[i] = "returned"
  /\ \/ /\ events' = [events EXCEPT ![i] = Append(events[i], "c")]
        /\ ret' = [ret EXCEPT ![i] =
                     [expression |-> calculations[i], status |-> "success",
                      result |-> ret[i]]]
        /\ pc' = [pc EXCEPT ![i] = "Completed"]
     \/ /\ TaskRaise(i, AutomationError("press"))
        /\ UNCHANGED events
  /\ UNCHANGED << attempts, k >>
  /\ UNCHANGED envVars
  /\ UNCHANGED flowVars

\* Lines 95-99: an exception raised inside the try statement is logged and
\* re-raised to the engine.
TaskExcept(i) ==
  /\ pc[i] = "raised"
  /\ TaskRaise(i, ret[i])
  /\ UNCHANGED << attempts, k, events >>
  /\ UNCHANGED envVars
  /\ UNCHANGED flowVars

\* The next step of the running attempt of perform_calculation for task run i.
\* Line 81 calls get_run_logger, which the module never imports: the call
\* raises NameError before the try statement is entered, so in a flow run no
\* attempt gets to press a key and the handler of lines 95-99 is not involved.
\* With the name bound the attempt goes through perform_calculation_rpa
\* (lines 86, 26-67) and lines 88-93.
TaskAttempt(i) ==
  CASE pc[i] = "Running" ->
         /\ IF NameDefined("get_run_logger")
              THEN /\ pc' = [pc EXCEPT ![i] = "clear"]
                   /\ UNCHANGED ret
              ELSE TaskRaise(i, NameError("get_run_logger"))
         /\ UNCHANGED << attempts, k, events >>
         /\ UNCHANGED envVars
         /\ UNCHANGED flowVars
    [] pc[i] = "clear" -> RpaClear(i)
    [] pc[i] = "loop" -> RpaChar(i) \/ RpaEquals(i)
    [] pc[i] = "copy" -> RpaCopy(i)
    [] pc[i] = "read" -> RpaRead(i)
    [] pc[i] = "returned" -> TaskFinish(i)
    [] pc[i] = "raised" -> TaskExcept(i)
    [] OTHER -> FALSE

\* After retry_delay_seconds the engine starts the next attempt.
TaskRetry(i) ==
  /\ pc[i] = "AwaitingRetry"
  /\ pc' = [pc EXCEPT ![i] = "Running"]
  /\ attempts' = [attempts EXCEPT ![i] = attempts[i] + 1]
  /\ UNCHANGED << k, events, ret >>
  /\ UNCHANGED envVars
  /\ UNCHANGED flowVars

\* ---------------------------------------------------------- Calculation Flow
\* Variant of FailedOutcome that stores the error text under "result".
FailedOutcomeAsResult(expression, e) ==
  [expression |-> expression, status |-> "failed", result |-> str(e)]

FailedOutcome(expression, e) ==
  [expression |-> expression, status |-> "failed", error |-> str(e)]

\* One iteration of "for future in result_futures" (lines 124-131).
\* future.result() blocks until the run is final; it returns the task's value
\* or raises the task's exception.  The handler reads future.kwargs, which is
\* the engine's: it holds the expression, or lacks the key (the default
\* 'Unknown' is used), or the attribute does not exist and the handler itself
\* raises into the outer except clause.
FlowCollect ==
  /\ fpc = "collect"
  /\ idx <= N
  /\ pc[idx] \in {"Completed", "Failed"}
  /\ IF pc[idx] = "Completed"
       THEN /\ results' = Append(results, ret[idx])
            /\ idx' = idx + 1
            /\ UNCHANGED << fpc, exc >>
       ELSE IF futureKwargs = "no_attr"
       THEN /\ exc' = AttributeError
            /\ fpc' = "except"
            /\ UNCHANGED << results, idx >>
       ELSE /\ results' = Append(results,
                   FailedOutcome(IF futureKwargs = "expression"
                                   THEN calculations[idx] ELSE <<"Unknown">>,
                                 ret[idx]))
            /\ idx' = idx + 1
            /\ UNCHANGED << fpc, exc >>
  /\ UNCHANGED << retval, observed, openCalls, closeCalls, closeFailures >>
  /\ UNCHANGED envVars
  /\ UNCHANGED threadVars

\* The return statement of line 133.  Building the dictionary reads
\* total_count, which is bound nowhere: NameError, caught by the outer except.
FlowReturn ==
  /\ fpc = "collect"
  /\ idx > N
  /\ IF NameDefined("total_count")
       THEN /\ retval' = [status |-> "completed", total_calculations |-> N,
                          results |-> results]
            /\ fpc' = "finally"
            /\ UNCHANGED exc
       ELSE /\ exc' = NameError("total_count")
            /\ fpc' = "except"
            /\ UNCHANGED retval
  /\ UNCHANGED << results, idx, observed, openCalls, closeCalls, closeFailures >>
  /\ UNCHANGED envVars
  /\ UNCHANGED threadVars

\* The outer handler (lines 135-145): close_calculator() inside try/except-pass,
\* then a bare raise, which hands the exception to the finally clause.
FlowExcept ==
  /\ fpc = "except"
  /\ closeCalls' = closeCalls + 1
  /\ \/ UNCHANGED closeFailures
     \/ closeFailures' = closeFailures + 1
  /\ fpc' = "finally"
  /\ UNCHANGED << results, idx, exc, retval, observed, openCalls >>
  /\ UNCHANGED envVars
  /\ UNCHANGED threadVars

\* The finally clause (lines 147-149): close_calculator() unguarded.  If it
\* returns, the pending return value or exception continues to the caller; if
\* it raises, its exception replaces whatever was pending.
FlowFinally ==
  /\ fpc = "finally"
  /\ closeCalls' = closeCalls + 1
  /\ \/ /\ observed' = IF exc # None THEN exc ELSE retval
        /\ UNCHANGED closeFailures
     \/ /\ observed' = CalledProcessError("quit")
        /\ closeFailures' = closeFailures + 1
  /\ fpc' = "done"
  /\ UNCHANGED << results, idx, exc, retval, openCalls >>
  /\ UNCHANGED envVars
  /\ UNCHANGED threadVars

Next ==
  \/ FlowOpen
  \/ FlowMap
  \/ \E i \in Threads : TaskStart(i)
  \/ \E i \in Threads : TaskAttempt(i)
  \/ \E i \in Threads : TaskRetry(i)
  \/ FlowCollect
  \/ FlowReturn
  \/ FlowExcept
  \/ FlowFinally

Spec == Init /\ [][Next]_vars

\* A direct call perform_calculation_rpa(e) for every e of the bounded alphabet.
RpaInit ==
  /\ calculations \in { << e >> : e \in Exprs }
  /\ pyperclipInstalled \in BOOLEAN
  /\ futureKwargs = "expression"
  /\ fpc = "idle"
  /\ results = <<>>
  /\ idx = 0
  /\ exc = None
  /\ retval = None
  /\ observed = None
  /\ openCalls = 0
  /\ closeCalls = 0
  /\ closeFailures = 0
  /\ pc = [i \in Threads |-> IF i = 1 THEN "clear" ELSE "NotSubmitted"]
  /\ attempts = [i \in Threads |-> 0]
  /\ k = [i \in Threads |-> 0]
  /\ events = [i \in Threads |-> <<>>]
  /\ ret = [i \in Threads |-> None]

RpaNext ==
  \/ \E i \in Threads : RpaClear(i)
  \/ \E i \in Threads : RpaChar(i)
  \/ \E i \in Threads : RpaEquals(i)
  \/ \E i \in Threads : RpaCopy(i)
  \/ \E i \in Threads : RpaRead(i)

SpecRpa == RpaInit /\ [][RpaNext]_vars

\* =================================================================== claims
\* Shorthands used by the properties below.
FlowDone == fpc = "done"
OpenFailed == FlowDone /\ observed = CalledProcessError("activate")
OpenSucceeded == FlowDone /\ ~OpenFailed
IsException(v) == "msg" \in DOMAIN v

\* C1: in every run of the flow close_calculator is invoked exactly once,
\* whether the run succeeds or open, dispatch or collection raises.
C1_CloseExactlyOnce == FlowDone => closeCalls = 1

\* C2: when open_calculator succeeds and every calculation task succeeds (and
\* neither the dispatch nor close_calculator raises), the flow returns the
\* value {status: completed, total_calculations: number of inputs, results:
\* the success outcomes in input order}.
C2_CompletedWhenAllSucceed ==
  ( /\ OpenSucceeded
    /\ exc # MapError
    /\ closeFailures = 0
    /\ \A i \in 1..N : pc[i] = "Completed" )
  => observed = [ status |-> "completed",
                  total_calculations |-> N,
                  results |-> [i \in 1..N |-> ret[i]] ]

\* C3: a task that ultimately fails does not abort the flow: once the flow is
\* over (open and dispatch having succeeded) every task has been collected,
\* each failed task has an outcome with status = failed and an error text at
\* its position, and no exception was raised out of handling a failed task.
C3_FailedTaskContained ==
  ( OpenSucceeded /\ exc # MapError )
  => /\ Len(results) = N
     /\ \A i \in 1..N :
          pc[i] = "Failed" =>
            /\ results[i].status = "failed"
            /\ "error" \in DOMAIN results[i]
            /\ results[i].error = str(ret[i])
     /\ exc # AttributeError

\* C4: whenever the flow has finished collecting, results has as many entries
\* as there are input expressions and entry i carries the i-th input
\* expression, for success and failed entries alike.
CollectFinished == idx = N + 1
C4_ResultsPositional ==
  CollectFinished =>
    /\ Len(results) = N
    /\ \A i \in 1..N : results[i].expression = calculations[i]

\* C5: a task whose attempts all raise is attempted 4 times (the first attempt
\* and exactly 3 retries) and is reported failed only then; a run that is
\* failed or completed is never attempted again.
C5_RetriedExactlyThreeTimes ==
  /\ [](\A i \in Threads : /\ attempts[i] <= 4
                           /\ pc[i] = "Failed" => attempts[i] = 4)
  /\ [][\A i \in Threads :
          pc[i] \in {"Failed", "Completed"} =>
            /\ pc'[i] = pc[i]
            /\ attempts'[i] = attempts[i]]_vars

C5_Witness ==
  \E i \in Threads : pc[i] = "Failed" /\ attempts[i] = 4 /\ IsException(ret[i])

\* C6: the key events perform_calculation_rpa emits between the initial clear
\* key and the evaluate key are the expression's characters that are digits
\* or one of + - * /, in input order, one event each; any other character
\* emits nothing and the characters after it are still processed.
KeyChars == {"0", "1", "2", "3", "4", "5", "6", "7", "8", "9", "+", "-", "*", "/"}
ExpectedKeys(e) == SelectSeq(e, LAMBDA ch : ch \in KeyChars)

C6_KeysAreFilteredExpression ==
  \A i \in 1..N :
    /\ pc[i] = "loop" =>
         events[i] = << "c" >> \o ExpectedKeys(SubSeq(calculations[i], 1, k[i] - 1))
    /\ pc[i] \in {"copy", "read", "returned"} =>
         SubSeq(events[i], 1, Len(ExpectedKeys(calculations[i])) + 2)
           = << "c" >> \o ExpectedKeys(calculations[i]) \o << "=" >>

C6_Witness ==
  \E i \in 1..N :
    /\ pc[i] = "returned"
    /\ \E a, b \in 1..Len(calculations[i]) :
         /\ a < b
         /\ calculations[i][a] \notin KeyChars
         /\ calculations[i][b] \in KeyChars

\* C7: an attempt of perform_calculation performs, in this order, clear key,
\* the expression's keys, evaluate key, copy and clipboard read, clear key, and
\* returns its success outcome after the second clear.  Stated of every
\* attempt that has ended without an automation call having raised.
AttemptEnded(i) == pc[i] \in {"AwaitingRetry", "Failed", "Completed"}
AutomationFailed(i) == IsException(ret[i]) /\ ret[i].type = "AutomationError"

C8_SentinelOutcome ==
  \A i \in 1..N :
    ( ~pyperclipInstalled /\ AttemptEnded(i) /\ ~AutomationFailed(i) ) =>
      /\ pc[i] = "Completed"
      /\ attempts[i] = 1
      /\ ret[i] = [ expression |-> calculations[i], status |-> "success",
                    result |-> Sentinel ]

\* C9: a failure of close_calculator during cleanup never changes what the
\* caller observes: the completed result if the flow was succeeding, the
\* original exception if it was failing.
C9_CloseFailureSwallowed ==
  OpenSucceeded => observed = (IF exc # None THEN exc ELSE retval)

\* C10: if open_calculator fails, no calculation task is dispatched or
\* attempted, close_calculator is invoked before the failure reaches the
\* caller, and the caller observes an exception.
C10_OpenFailureCleansUp ==
  OpenFailed =>
    /\ \A i \in Threads : pc[i] = "NotSubmitted" /\ attempts[i] = 0
    /\ closeCalls >= 1
    /\ IsException(observed)

\* C11: when two calculation tasks run in parallel nothing serializes their
\* use of the UI: from every state in which two attempts are running, a state
\* is reachable (here within 4 steps) in which both tasks are between their
\* first clear key and their clipboard read, so that a key event of one was
\* delivered inside the other's clear-input-evaluate-read sequence.
InWindow(i) == pc[i] \in {"loop", "copy", "read"}
Interleaved == \E i, j \in 1..N : i # j /\ InWindow(i) /\ InWindow(j)
RunningInParallel == \E i, j \in 1..N : i # j /\ pc[i] = "Running" /\ pc[j] = "Running"
Reach1 == Interleaved \/ ENABLED (Next /\ Interleaved')
Reach2 == Reach1 \/ ENABLED (Next /\ Reach1')
Reach3 == Reach2 \/ ENABLED (Next /\ Reach2')
Reach4 == Reach3 \/ ENABLED (Next /\ Reach3')

C11_InterleavingReachable == RunningInParallel => Reach4

\* C12: every outcome in the flow's results list has status success or failed;
\* it has a result text and no error text exactly when status = success, an
\* error text and no result text exactly when status = failed; a failed
\* outcome belongs to a task run that raised on its final (4th) attempt and
\* carries that exception's text; the outcome of a completed run (whatever
\* text was read back) has status = success.
HasResult(o) == "result" \in DOMAIN o
HasError(o) == "error" \in DOMAIN o

C12_OutcomeShape ==
  \A j \in 1..Len(results) :
    LET o == results[j] IN
      /\ o.status \in {"success", "failed"}
      /\ o.status = "success" <=> (HasResult(o) /\ ~HasError(o))
      /\ o.status = "failed" <=> (HasError(o) /\ ~HasResult(o))
      /\ o.status = "failed" =>
           /\ pc[j] = "Failed"
           /\ attempts[j] = 4
           /\ IsException(ret[j])
           /\ o.error = str(ret[j])
      /\ pc[j] = "Completed" => (o.status = "success" /\ o = ret[j])

C12_Witness ==
  /\ Len(results) = 2
  /\ \A j \in 1..2 : results[j].status = "failed" /\ HasError(results[j])

\* C13: open and close bracket all task activity of a flow run: no attempt
\* has started or pressed a key before open_calculator has returned, and once
\* close_calculator has been invoked no attempt is running, on the failure
\* paths too.
OpenReturned == openCalls = 1 /\ fpc \notin {"start"} /\ ~OpenFailed
AttemptRunning(i) ==
  pc[i] \in {"Running", "clear", "loop", "copy", "read", "returned", "raised"}

C13_TasksBracketedByOpenClose ==
  /\ \A i \in Threads : (attempts[i] > 0 \/ events[i] # <<>>) => OpenReturned
  /\ closeCalls >= 1 => \A i \in Threads : ~AttemptRunning(i)

\* Every step of the flow and of the engine terminates and the engine keeps
\* scheduling the task runs it was given: weak fairness of every action.
FairSpec ==
  /\ Spec
  /\ WF_vars(FlowOpen) /\ WF_vars(FlowMap) /\ WF_vars(FlowCollect)
  /\ WF_vars(FlowReturn) /\ WF_vars(FlowExcept) /\ WF_vars(FlowFinally)
  /\ \A i \in Threads :
       WF_vars(TaskStart(i)) /\ WF_vars(TaskAttempt(i)) /\ WF_vars(TaskRetry(i))

\* C14: every run of the flow eventually ends (returns or raises), it ends
\* with close_calculator having been invoked, and the task attempts of the run
\* number at most 4 times the number of input expressions.
RECURSIVE SumUpTo(_, _)
SumUpTo(f, n) == IF n = 0 THEN 0 ELSE f[n] + SumUpTo(f, n - 1)
TotalAttempts == SumUpTo(attempts, MaxCalcs)

C14_Terminates == <>FlowDone

C14_EndsClosedWithinBudget ==
  /\ TotalAttempts <= 4 * N
  /\ FlowDone => closeCalls >= 1

====
